---- MODULE Spec2Model ----
(***************************************************************************)
(* SimpleSelect: the fast-path operator for                                *)
(*     select event from in [where ...] into out [having ...]              *)
(* (tremor-pipeline/src/op/trickle/simple_select.rs).                      *)
(*                                                                         *)
(* Option<T> and Vec<T> are sequences: <<>> is None / empty, <<x>> is      *)
(* Some(x).  A Result is a record [val, err] with exactly one of the two   *)
(* fields non-empty: Ok(v) = [val |-> <<v>>, err |-> <<>>].                *)
(***************************************************************************)
EXTENDS Integers, Sequences, FiniteSets, TLC

VARIABLES
    RECURSION_LIMIT, \* the process-wide limit, tremor_script::recursion_limit()
    self,            \* the operator with_stmt built (id, select, recursion_limit),
                     \* <<>> when construction failed
    state,           \* the pipeline's state value handed to every on_event call
    built,           \* history: the Result with_stmt returned
    event,           \* the input of the last on_event call (none yet: <<>>)
    result,          \* what the last on_event call returned (none yet: <<>>)
    evals            \* the guard evaluations of the last call, in order

vars == <<RECURSION_LIMIT, self, state, built, event, result, evals>>

(***************************************************************************)
(* Bounds of the model.                                                    *)
(***************************************************************************)
\* deepest recursion a guard expression's evaluation may need
MaxDepth == 2
\* largest process-wide recursion limit an operator is constructed with
MaxRecursionLimit == 1
\* largest ingest timestamp of an event
MaxIngestNs == 1
\* largest integer stored under the key "a" of an event payload
MaxPayload == 2

(***************************************************************************)
(* Values (tremor_value::Value), tagged so that values of different types  *)
(* are comparable.                                                         *)
(***************************************************************************)
Bool(b) == [t |-> "bool", v |-> IF b THEN 1 ELSE 0]

I64(n) == [t |-> "i64", v |-> n]

Null == [t |-> "null", v |-> 0]

\* Value::as_bool: Some(b) for a boolean, None for every other type
as_bool(value) == IF value.t = "bool" THEN <<value.v = 1>> ELSE <<>>

(***************************************************************************)
(* Results.                                                                *)
(***************************************************************************)
Ok(v) == [val |-> <<v>>, err |-> <<>>]

Err(e) == [val |-> <<>>, err |-> <<e>>]

is_ok(r) == r.err = <<>>

(***************************************************************************)
(* Guard expressions (tremor_script::ast::ImutExpr), one record per shape  *)
(* the where- and having-clause can take:                                  *)
(*   literal    a constant value                                           *)
(*   path       event.a                                                    *)
(*   gt         event.a > k                                                *)
(*   state      the shared state value                                     *)
(*   ingest_ns  the ingest timestamp, read from the event context          *)
(* depth is the recursion depth the evaluation needs, mid the node id      *)
(* under which node_meta holds the expression's source position.           *)
(***************************************************************************)
Literals == {Bool(TRUE), Bool(FALSE)}

Exprs(mid) ==
    { [kind |-> "literal", lit |-> l, k |-> 0, depth |-> d, mid |-> mid] :
        l \in Literals, d \in 0..MaxDepth }
    \cup
    { [kind |-> kd, lit |-> Null, k |-> 0, depth |-> d, mid |-> mid] :
        kd \in {"path", "state", "ingest_ns"}, d \in 0..MaxDepth }
    \cup
    { [kind |-> "gt", lit |-> Null, k |-> k, depth |-> d, mid |-> mid] :
        k \in {0, 5}, d \in 0..MaxDepth }

(***************************************************************************)
(* Events (tremor_pipeline::Event): payload and metadata, ingest           *)
(* timestamp, origin.                                                      *)
(***************************************************************************)
Payloads == {I64(n) : n \in 1..MaxPayload} \cup {I64(7), Bool(TRUE), Null}

Events ==
    { [data |-> [value |-> [a |-> p], meta |-> Null],
       ingest_ns |-> ns, origin_uri |-> o] :
        p \in Payloads, ns \in 0..MaxIngestNs, o \in {<<>>, <<"tremor://host">>} }

States == {Null, Bool(TRUE)}

\* event.data.parts(): the payload and the metadata of the event
parts(data) == [data |-> data.value, meta |-> data.meta]

\* EventContext::new(ingest_ns, origin_uri)
EventContext_new(ingest_ns, origin_uri) ==
    [ingest_ns |-> ingest_ns, origin_uri |-> origin_uri]

\* LocalStack::with_size(0): guards have no locals
LocalStack_with_size(n) == [values |-> [i \in 1..n |-> Null]]

\* SimpleSelect::opts
opts == [result_needed |-> TRUE, aggr |-> "Emit"]

NO_AGGRS == <<>>

(***************************************************************************)
(* Results of the operator.                                                *)
(***************************************************************************)
\* EventAndInsights::default(): no event, no insight
EventAndInsights_default == [events |-> <<>>, insights |-> <<>>]

\* From<Event> for EventAndInsights: the event on port "out", no insight
EventAndInsights_from(ev) ==
    [events |-> << [port |-> "out", event |-> ev] >>, insights |-> <<>>]

\* an error of the script engine; outer and inner are the node ids of the
\* statement and of the clause, got the offending value (guard errors only)
ScriptError(kind, outer, inner, got) ==
    [kind |-> kind, outer |-> outer, inner |-> inner, got |-> got, msg |-> ""]

\* an error of the script engine that is a plain message (ErrorKind::Msg)
ScriptError_Msg(msg) ==
    [kind |-> "Msg", outer |-> <<>>, inner |-> <<>>, got |-> <<>>, msg |-> msg]

\* the `?` operator's conversion of a script error into the pipeline's
\* error type: the script error becomes the cause of a pipeline error
Error_from(e) == [kind |-> "Script", cause |-> e]

\* errors::query_guard_not_bool: always an error, naming the statement,
\* the clause and the value
query_guard_not_bool(stmt, guard, test, node_meta) ==
    Err(ScriptError("QueryGuardNotBool", <<stmt.mid>>, <<guard.mid>>, <<test>>))

(***************************************************************************)
(* The guard evaluator (ImutExpr::run).  It reads the event payload, the   *)
(* state and the environment and changes none of them.                     *)
(***************************************************************************)
run(guard, o, env, data, st, meta, local_stack) ==
    IF guard.depth > env.recursion_limit
    THEN Err(ScriptError("RecursionLimit", <<>>, <<guard.mid>>, <<>>))
    ELSE CASE guard.kind = "literal" -> Ok(guard.lit)
           [] guard.kind = "path" -> Ok(data.a)
           [] guard.kind = "state" -> Ok(st)
           [] guard.kind = "ingest_ns" -> Ok(I64(env.context.ingest_ns))
           [] guard.kind = "gt" ->
                IF data.a.t = "i64"
                THEN Ok(Bool(data.a.v > guard.k))
                ELSE Err(ScriptError("InvalidBinary", <<>>, <<guard.mid>>, <<data.a>>))

(***************************************************************************)
(* Construction.                                                           *)
(***************************************************************************)
\* node ids of the statement and of its two clauses
node_meta_of == <<"select", "where", "having">>

\* the statements the planner hands to with_stmt: select event from in
\* [where w] into out [having h], and a statement that is not a select
Stmts ==
    { [kind |-> "select",
       stmt |-> [mid |-> 1, maybe_where |-> w, maybe_having |-> h],
       consts |-> [args |-> Null, group |-> Null, window |-> Null],
       node_meta |-> node_meta_of] :
        w \in {<<>>} \cup { <<e>> : e \in Exprs(2) },
        h \in {<<>>} \cup { <<e>> : e \in Exprs(3) } }
    \cup
    { [kind |-> "stream",
       stmt |-> [mid |-> 1, maybe_where |-> <<>>, maybe_having |-> <<>>],
       consts |-> [args |-> Null, group |-> Null, window |-> Null],
       node_meta |-> node_meta_of] }

\* srs::Select::try_new_from_stmt: for a select statement the container
\* that owns the statement, its constants and its node metadata; for any
\* other statement an error
try_new_from_stmt(stmt) ==
    IF stmt.kind = "select"
    THEN Ok([stmt |-> stmt.stmt, consts |-> stmt.consts,
             node_meta |-> stmt.node_meta])
    ELSE Err(ScriptError_Msg("Trying to turn a non select into a select"))

\* the operator is built only if the container is: the ? returns the
\* container's error, converted, as the error of the construction
with_stmt(id, stmt) ==
    LET select == try_new_from_stmt(stmt)
    IN IF ~is_ok(select)
       THEN Err(Error_from(select.err[1]))
       ELSE Ok([id |-> id,
                select |-> select.val[1],
                recursion_limit |-> RECURSION_LIMIT])

(***************************************************************************)
(* on_event                                                                *)
(***************************************************************************)
\* the Env the guards are run in
Env(this, select_stmt, ev) ==
    [context |-> EventContext_new(ev.ingest_ns, ev.origin_uri),
     consts |-> select_stmt.consts,
     aggrs |-> NO_AGGRS,
     meta |-> select_stmt.node_meta,
     recursion_limit |-> this.recursion_limit]

\* one evaluation of a guard, as recorded in evals
Eval(guard, test) == [clause |-> guard.mid, out |-> test]

\* what a gate tells the rest of the closure: fall through, or return ret
Pass(trace) == [flow |-> "pass", ret |-> <<>>, evals |-> trace]

Return(r, trace) == [flow |-> "return", ret |-> <<r>>, evals |-> trace]

\* where_gate with a false where-clause passing like a true one
where_gate_C1(stmt, node_meta, env, ev, st, local_stack) ==
    IF stmt.maybe_where = <<>>
    THEN Pass(<<>>)
    ELSE LET guard == stmt.maybe_where[1]
             p == parts(ev.data)
             test == run(guard, opts, env, p.data, st, p.meta, local_stack)
             trace == << Eval(guard, test) >>
         IN IF ~is_ok(test)
            THEN Return(Err(Error_from(test.err[1])), trace)
            ELSE LET b == as_bool(test.val[1])
                 IN IF b # <<>>
                    THEN Pass(trace)
                    ELSE LET e == query_guard_not_bool(stmt, guard, test.val[1], node_meta)
                         IN Return(Err(Error_from(e.err[1])), trace)

\* where_gate with a non-boolean where-clause dropping like a false one
where_gate_C4(stmt, node_meta, env, ev, st, local_stack) ==
    IF stmt.maybe_where = <<>>
    THEN Pass(<<>>)
    ELSE LET guard == stmt.maybe_where[1]
             p == parts(ev.data)
             test == run(guard, opts, env, p.data, st, p.meta, local_stack)
             trace == << Eval(guard, test) >>
         IN IF ~is_ok(test)
            THEN Return(Err(Error_from(test.err[1])), trace)
            ELSE LET b == as_bool(test.val[1])
                 IN IF b # <<>>
                    THEN IF ~b[1]
                         THEN Return(Ok(EventAndInsights_default), trace)
                         ELSE Pass(trace)
                    ELSE Return(Ok(EventAndInsights_default), trace)

\* if let Some(guard) = &stmt.maybe_where { ... }
where_gate(stmt, node_meta, env, ev, st, local_stack) ==
    IF stmt.maybe_where = <<>>
    THEN Pass(<<>>)
    ELSE LET guard == stmt.maybe_where[1]
             p == parts(ev.data)
             test == run(guard, opts, env, p.data, st, p.meta, local_stack)
             trace == << Eval(guard, test) >>
         IN IF ~is_ok(test)
            THEN Return(Err(Error_from(test.err[1])), trace)
            ELSE LET b == as_bool(test.val[1])
                 IN IF b # <<>>
                    THEN IF ~b[1]
                         THEN Return(Ok(EventAndInsights_default), trace)
                         ELSE Pass(trace)
                    ELSE LET e == query_guard_not_bool(stmt, guard, test.val[1], node_meta)
                         IN Return(Err(Error_from(e.err[1])), trace)

\* having_gate with a false having-clause passing like a true one
having_gate_C2(stmt, node_meta, env, ev, st, local_stack) ==
    IF stmt.maybe_having = <<>>
    THEN Pass(<<>>)
    ELSE LET guard == stmt.maybe_having[1]
             p == parts(ev.data)
             test == run(guard, opts, env, p.data, st, p.meta, local_stack)
             trace == << Eval(guard, test) >>
         IN IF ~is_ok(test)
            THEN Return(Err(Error_from(test.err[1])), trace)
            ELSE LET b == as_bool(test.val[1])
                 IN IF b # <<>>
                    THEN Pass(trace)
                    ELSE LET e == query_guard_not_bool(stmt, guard, test.val[1], node_meta)
                         IN Return(Err(Error_from(e.err[1])), trace)

\* having_gate with an absent having-clause dropping the event
having_gate_C6(stmt, node_meta, env, ev, st, local_stack) ==
    IF stmt.maybe_having = <<>>
    THEN Return(Ok(EventAndInsights_default), <<>>)
    ELSE LET guard == stmt.maybe_having[1]
             p == parts(ev.data)
             test == run(guard, opts, env, p.data, st, p.meta, local_stack)
             trace == << Eval(guard, test) >>
         IN IF ~is_ok(test)
            THEN Return(Err(Error_from(test.err[1])), trace)
            ELSE LET b == as_bool(test.val[1])
                 IN IF b # <<>>
                    THEN IF ~b[1]
                         THEN Return(Ok(EventAndInsights_default), trace)
                         ELSE Pass(trace)
                    ELSE LET e == query_guard_not_bool(stmt, guard, test.val[1], node_meta)
                         IN Return(Err(Error_from(e.err[1])), trace)

\* having_gate with a failed evaluation dropping the event
having_gate_C7(stmt, node_meta, env, ev, st, local_stack) ==
    IF stmt.maybe_having = <<>>
    THEN Pass(<<>>)
    ELSE LET guard == stmt.maybe_having[1]
             p == parts(ev.data)
             test == run(guard, opts, env, p.data, st, p.meta, local_stack)
             trace == << Eval(guard, test) >>
         IN IF ~is_ok(test)
            THEN Return(Ok(EventAndInsights_default), trace)
            ELSE LET b == as_bool(test.val[1])
                 IN IF b # <<>>
                    THEN IF ~b[1]
                         THEN Return(Ok(EventAndInsights_default), trace)
                         ELSE Pass(trace)
                    ELSE LET e == query_guard_not_bool(stmt, guard, test.val[1], node_meta)
                         IN Return(Err(Error_from(e.err[1])), trace)

\* having_gate reporting the where-clause as the failing clause
having_gate_C9(stmt, node_meta, env, ev, st, local_stack) ==
    IF stmt.maybe_having = <<>>
    THEN Pass(<<>>)
    ELSE LET guard == stmt.maybe_having[1]
             p == parts(ev.data)
             test == run(guard, opts, env, p.data, st, p.meta, local_stack)
             trace == << Eval(guard, test) >>
         IN IF ~is_ok(test)
            THEN Return(Err(Error_from(test.err[1])), trace)
            ELSE LET b == as_bool(test.val[1])
                 IN IF b # <<>>
                    THEN IF ~b[1]
                         THEN Return(Ok(EventAndInsights_default), trace)
                         ELSE Pass(trace)
                    ELSE LET e == query_guard_not_bool(stmt,
                                      IF stmt.maybe_where # <<>> THEN stmt.maybe_where[1] ELSE guard,
                                      test.val[1], node_meta)
                         IN Return(Err(Error_from(e.err[1])), trace)

\* if let Some(guard) = &stmt.maybe_having { ... }
having_gate(stmt, node_meta, env, ev, st, local_stack) ==
    IF stmt.maybe_having = <<>>
    THEN Pass(<<>>)
    ELSE LET guard == stmt.maybe_having[1]
             p == parts(ev.data)
             test == run(guard, opts, env, p.data, st, p.meta, local_stack)
             trace == << Eval(guard, test) >>
         IN IF ~is_ok(test)
            THEN Return(Err(Error_from(test.err[1])), trace)
            ELSE LET b == as_bool(test.val[1])
                 IN IF b # <<>>
                    THEN IF ~b[1]
                         THEN Return(Ok(EventAndInsights_default), trace)
                         ELSE Pass(trace)
                    ELSE LET e == query_guard_not_bool(stmt, guard, test.val[1], node_meta)
                         IN Return(Err(Error_from(e.err[1])), trace)

\* the closure forwarding the event without its origin
on_event_closure_C3(this, select_stmt, st, ev) ==
    LET stmt == select_stmt.stmt
        node_meta == select_stmt.node_meta
        local_stack == LocalStack_with_size(0)
        env == Env(this, select_stmt, ev)
        w == where_gate(stmt, node_meta, env, ev, st, local_stack)
    IN IF w.flow = "return"
       THEN [ret |-> w.ret[1], evals |-> w.evals]
       ELSE LET h == having_gate(stmt, node_meta, env, ev, st, local_stack)
            IN IF h.flow = "return"
               THEN [ret |-> h.ret[1], evals |-> w.evals \o h.evals]
               ELSE [ret |-> Ok(EventAndInsights_from([ev EXCEPT !.origin_uri = <<>>])),
                     evals |-> w.evals \o h.evals]

\* the closure attaching an insight to the forwarded event
on_event_closure_C5(this, select_stmt, st, ev) ==
    LET stmt == select_stmt.stmt
        node_meta == select_stmt.node_meta
        local_stack == LocalStack_with_size(0)
        env == Env(this, select_stmt, ev)
        w == where_gate(stmt, node_meta, env, ev, st, local_stack)
    IN IF w.flow = "return"
       THEN [ret |-> w.ret[1], evals |-> w.evals]
       ELSE LET h == having_gate(stmt, node_meta, env, ev, st, local_stack)
            IN IF h.flow = "return"
               THEN [ret |-> h.ret[1], evals |-> w.evals \o h.evals]
               ELSE [ret |-> Ok([EventAndInsights_from(ev) EXCEPT !.insights = <<ev>>]),
                     evals |-> w.evals \o h.evals]

\* the closure running both gates before it looks at the where gate
on_event_closure_C8(this, select_stmt, st, ev) ==
    LET stmt == select_stmt.stmt
        node_meta == select_stmt.node_meta
        local_stack == LocalStack_with_size(0)
        env == Env(this, select_stmt, ev)
        w == where_gate(stmt, node_meta, env, ev, st, local_stack)
        h == having_gate(stmt, node_meta, env, ev, st, local_stack)
    IN IF w.flow = "return"
       THEN [ret |-> w.ret[1], evals |-> w.evals \o h.evals]
       ELSE IF h.flow = "return"
            THEN [ret |-> h.ret[1], evals |-> w.evals \o h.evals]
            ELSE [ret |-> Ok(EventAndInsights_from(ev)),
                  evals |-> w.evals \o h.evals]

\* the closure on_event hands to self.select.rent: its return value and
\* the guard evaluations it made
on_event_closure(this, select_stmt, st, ev) ==
    LET stmt == select_stmt.stmt
        node_meta == select_stmt.node_meta
        local_stack == LocalStack_with_size(0)
        env == Env(this, select_stmt, ev)
        w == where_gate(stmt, node_meta, env, ev, st, local_stack)
    IN IF w.flow = "return"
       THEN [ret |-> w.ret[1], evals |-> w.evals]
       ELSE LET h == having_gate(stmt, node_meta, env, ev, st, local_stack)
            IN IF h.flow = "return"
               THEN [ret |-> h.ret[1], evals |-> w.evals \o h.evals]
               ELSE [ret |-> Ok(EventAndInsights_from(ev)),
                     evals |-> w.evals \o h.evals]

\* on_event taking the where-clause out of the statement when it drops an event
on_event_C10(uid, port, ev) ==
    LET out == on_event_closure(self[1], self[1].select, state, ev)
    IN /\ self # <<>>
       /\ result' = <<out.ret>>
       /\ evals' = out.evals
       /\ event' = <<ev>>
       /\ self' = IF is_ok(out.ret) /\ out.ret.val[1].events = <<>>
                  THEN [self EXCEPT ![1].select.stmt.maybe_where = <<>>]
                  ELSE self
       /\ UNCHANGED <<RECURSION_LIMIT, state, built>>

on_event(uid, port, ev) ==
    LET out == on_event_closure(self[1], self[1].select, state, ev)
    IN /\ self # <<>>
       /\ result' = <<out.ret>>
       /\ evals' = out.evals
       /\ event' = <<ev>>
       /\ UNCHANGED <<RECURSION_LIMIT, self, state, built>>

(***************************************************************************)
(* The specification: with_stmt is called once; when it built an operator, *)
(* any sequence of on_event calls on that operator follows.                *)
(***************************************************************************)
Init ==
    /\ RECURSION_LIMIT \in 1..MaxRecursionLimit
    /\ \E stmt \in Stmts : built = with_stmt("select", stmt)
    /\ self = built.val
    /\ state \in States
    /\ event = <<>>
    /\ result = <<>>
    /\ evals = <<>>

Next == \E uid \in {0}, port \in {"in"}, ev \in Events : on_event(uid, port, ev)

Spec == Init /\ [][Next]_vars

(***************************************************************************)
(* Vocabulary of the properties.  They speak of the last on_event call:    *)
(* its input event, the value it returned, and what each clause of the    *)
(* statement evaluates to on that input.                                   *)
(***************************************************************************)
called == result # <<>>

the_event == event[1]

returned == result[1]

the_stmt == self[1].select.stmt

ValueOf(guard) ==
    run(guard, opts, Env(self[1], self[1].select, the_event),
        parts(the_event.data).data, state, parts(the_event.data).meta,
        LocalStack_with_size(0))

WherePresent == the_stmt.maybe_where # <<>>

HavingPresent == the_stmt.maybe_having # <<>>

WhereOut == ValueOf(the_stmt.maybe_where[1])

HavingOut == ValueOf(the_stmt.maybe_having[1])

WhereIs(b) == WherePresent /\ WhereOut = Ok(Bool(b))

HavingIs(b) == HavingPresent /\ HavingOut = Ok(Bool(b))

WherePasses == ~WherePresent \/ WhereIs(TRUE)

HavingPasses == ~HavingPresent \/ HavingIs(TRUE)

NonBool(r) == is_ok(r) /\ r.val[1].t # "bool"

WhereNonBool == WherePresent /\ NonBool(WhereOut)

HavingNonBool == WherePasses /\ HavingPresent /\ NonBool(HavingOut)

WhereFails == WherePresent /\ ~is_ok(WhereOut)

HavingFails == WherePasses /\ HavingPresent /\ ~is_ok(HavingOut)

\* success with no event and no insight
Dropped ==
    /\ returned.err = <<>>
    /\ Len(returned.val) = 1
    /\ returned.val[1].events = <<>>
    /\ returned.val[1].insights = <<>>

\* success with the input event as the only event, and no insight
Forwarded ==
    /\ returned.err = <<>>
    /\ Len(returned.val) = 1
    /\ Len(returned.val[1].events) = 1
    /\ returned.val[1].events[1].event = the_event
    /\ returned.val[1].insights = <<>>

\* failure: an error and no output
Failed ==
    /\ returned.val = <<>>
    /\ Len(returned.err) = 1

FailedWith(e) == Failed /\ returned.err[1].cause = e

GuardNotBool(guard, value) ==
    /\ Failed
    /\ returned.err[1].cause.kind = "QueryGuardNotBool"
    /\ returned.err[1].cause.outer = <<the_stmt.mid>>
    /\ returned.err[1].cause.inner = <<guard.mid>>
    /\ returned.err[1].cause.got = <<value>>

(***************************************************************************)
(* The properties.                                                         *)
(***************************************************************************)
\* C1: when the where-clause evaluates to boolean false, on_event returns
\* success with no event and no insight, whatever the having-clause is.
C1_WhereFalseDrops == (called /\ WhereIs(FALSE)) => Dropped

\* a where-clause that is false in front of a having-clause that would fail
C1_Witness ==
    /\ called
    /\ WhereIs(FALSE)
    /\ HavingPresent
    /\ ~is_ok(HavingOut)
    /\ Dropped

\* C2: when the where-clause is absent or true and the having-clause
\* evaluates to boolean false, on_event returns success with no event and
\* no insight.
C2_HavingFalseDrops == (called /\ WherePasses /\ HavingIs(FALSE)) => Dropped

C2_Witness ==
    /\ called
    /\ WhereIs(TRUE)
    /\ HavingIs(FALSE)
    /\ the_stmt.maybe_having[1].kind = "gt"
    /\ Dropped

\* C3: when each clause is absent or evaluates to boolean true, on_event
\* returns success with exactly one event, the input event unchanged, and
\* no insight.
C3_PassForwardsInput == (called /\ WherePasses /\ HavingPasses) => Forwarded

C3_Witness ==
    /\ called
    /\ WhereIs(TRUE)
    /\ HavingIs(TRUE)
    /\ the_event.origin_uri # <<>>
    /\ the_event.ingest_ns > 0
    /\ Forwarded

\* C4: when an evaluated guard clause (the where-clause, or the
\* having-clause after the where gate passed) yields a non-boolean value,
\* the call fails with the guard-type error and returns no event and no
\* insight.
C4_NonBoolFails ==
    (called /\ (WhereNonBool \/ HavingNonBool)) =>
        (Failed /\ returned.err[1].cause.kind = "QueryGuardNotBool")

\* where event.a, on a payload with a = 1
C4_Witness ==
    /\ called
    /\ WhereNonBool
    /\ WhereOut = Ok(I64(1))
    /\ Failed
    /\ returned.err[1].cause.kind = "QueryGuardNotBool"

\* C5: every on_event call ends in exactly one of: success with exactly
\* one event (the input), success with no event, failure with no output;
\* the result never carries more than one event or any insight.
C5_ThreeOutcomes ==
    called =>
        /\ Forwarded \/ Dropped \/ Failed
        /\ ~(Forwarded /\ Dropped)
        /\ ~(Forwarded /\ Failed)
        /\ ~(Dropped /\ Failed)
        /\ \A i \in 1..Len(returned.val) :
              /\ Len(returned.val[i].events) <= 1
              /\ returned.val[i].insights = <<>>

C5_Witness == called /\ Failed /\ ~Forwarded /\ ~Dropped

\* C6: with neither a where- nor a having-clause, on_event evaluates no
\* guard and forwards the input event unchanged, for every event and state.
C6_NoClausePassThrough ==
    (called /\ ~WherePresent /\ ~HavingPresent) => (evals = <<>> /\ Forwarded)

C6_Witness ==
    /\ called
    /\ ~WherePresent
    /\ ~HavingPresent
    /\ state = Bool(TRUE)
    /\ the_event.data.value.a = Null
    /\ Forwarded

\* C7: when the evaluation of a guard clause fails, on_event fails with
\* that error, forwards nothing and evaluates no further clause.
C7_EvalErrorPropagates ==
    called =>
        /\ WhereFails =>
              /\ FailedWith(WhereOut.err[1])
              /\ evals = << Eval(the_stmt.maybe_where[1], WhereOut) >>
        /\ HavingFails =>
              /\ FailedWith(HavingOut.err[1])
              /\ evals[Len(evals)] = Eval(the_stmt.maybe_having[1], HavingOut)

\* the where-clause exceeds the recursion limit in front of a having-clause
C7_Witness ==
    /\ called
    /\ WhereFails
    /\ WhereOut.err[1].kind = "RecursionLimit"
    /\ HavingPresent
    /\ Failed
    /\ returned.err[1].cause.kind = "RecursionLimit"
    /\ Len(evals) = 1

\* C8: within one call the where-clause is evaluated before the
\* having-clause, each clause at most once, and the having-clause only if
\* the where-clause is absent or evaluated to boolean true.
C8_EvaluationOrder ==
    called =>
        /\ Len(evals) <= 2
        /\ \A i \in 1..Len(evals) :
              \/ /\ WherePresent
                 /\ i = 1
                 /\ evals[i].clause = the_stmt.maybe_where[1].mid
              \/ /\ HavingPresent
                 /\ evals[i].clause = the_stmt.maybe_having[1].mid
                 /\ i = Len(evals)
                 /\ WherePresent => (i = 2 /\ evals[1].out = Ok(Bool(TRUE)))
                 /\ ~WherePresent => i = 1

\* the where-clause was false: it is the only evaluation of the call
C8_Witness ==
    /\ called
    /\ WhereIs(FALSE)
    /\ HavingPresent
    /\ Len(evals) = 1
    /\ evals[1].clause = the_stmt.maybe_where[1].mid

\* C9: the guard-type error names the statement, the clause that yielded
\* the non-boolean value and that value: the where-clause when it is the
\* where-clause, the having-clause (never the where-clause) when the where
\* gate passed and it is the having-clause.
C9_ErrorNamesClause ==
    called =>
        /\ WhereNonBool =>
              GuardNotBool(the_stmt.maybe_where[1], WhereOut.val[1])
        /\ HavingNonBool =>
              GuardNotBool(the_stmt.maybe_having[1], HavingOut.val[1])

C9_Witness ==
    /\ called
    /\ WhereIs(TRUE)
    /\ HavingNonBool
    /\ returned.err # <<>>
    /\ returned.err[1].cause.inner = <<the_stmt.maybe_having[1].mid>>
    /\ returned.err[1].cause.inner # <<the_stmt.maybe_where[1].mid>>
    /\ returned.err[1].cause.got = <<the_event.data.value.a>>

\* C10: after any sequence of on_event calls the statement container, the
\* identifier and the recursion limit of the operator are those with_stmt
\* set at construction.
C10_OperatorUnchanged ==
    /\ self = built.val
    /\ called =>
          /\ is_ok(built)
          /\ self[1].id = built.val[1].id
          /\ self[1].select = built.val[1].select
          /\ self[1].recursion_limit = built.val[1].recursion_limit

C10_Witness ==
    /\ called
    /\ Dropped \/ Failed
    /\ WherePresent
    /\ self = built.val

====
